---------------------------- MODULE Spec2Model ----------------------------
(***************************************************************************)
(* Model of the survey server (src/main.py) and of the decoding done by    *)
(* its companion client (src/survey_client.py).                            *)
(*                                                                         *)
(* A text is a sequence of atoms.  An atom is one character; the fixed     *)
(* literals of the source that hold no quote, backslash, separator or      *)
(* JSON punctuation ("favorite", "Could not find any survey called ", ...) *)
(* are written as one atom each.                                           *)
(***************************************************************************)
EXTENDS Integers, Sequences, FiniteSets, TLC

\* ------------------------------------------------------------------ texts

Quote == "\""
Backslash == "\\"
Sep == "/"
Newline == "\n"
Space == " "

\* None, where a record is expected.
None == [none |-> TRUE]

\* scope.headers.get("user-agent"): the header's text, or None.
Header(text) == [present |-> TRUE, value |-> text]
NoHeader == [present |-> FALSE, value |-> <<>>]

Digits == <<"0", "1", "2", "3", "4", "5", "6", "7", "8", "9">>

DigitSet == {Digits[k] : k \in DOMAIN Digits}

DigitValue(c) == (CHOOSE k \in DOMAIN Digits : Digits[k] = c) - 1

RECURSIVE IntToText(_)
\* The decimal literal of a non-negative integer, as orjson and str write it.
IntToText(n) ==
    IF n < 10 THEN <<Digits[n + 1]>>
    ELSE IntToText(n \div 10) \o <<Digits[(n % 10) + 1]>>

RECURSIVE Flatten(_)
Flatten(texts) ==
    IF texts = <<>> THEN <<>> ELSE Head(texts) \o Flatten(Tail(texts))

StartsWith(text, prefix) ==
    /\ Len(text) >= Len(prefix)
    /\ SubSeq(text, 1, Len(prefix)) = prefix

\* str.casefold on the letters of the model's alphabet.
UpperToLower ==
    ("P" :> "p") @@ ("Y" :> "y") @@ ("T" :> "t") @@ ("H" :> "h")
        @@ ("O" :> "o") @@ ("N" :> "n") @@ ("Favorite" :> "favorite")

Casefold(text) ==
    [k \in DOMAIN text |->
        IF text[k] \in DOMAIN UpperToLower THEN UpperToLower[text[k]]
        ELSE text[k]]

RECURSIVE LStrip(_)
LStrip(path) ==
    IF path # <<>> /\ Head(path) = Sep THEN LStrip(Tail(path)) ELSE path

RECURSIVE RStrip(_)
RStrip(path) ==
    IF path # <<>> /\ path[Len(path)] = Sep
    THEN RStrip(SubSeq(path, 1, Len(path) - 1))
    ELSE path

\* path.strip("/")
Strip(path) == RStrip(LStrip(path))

\* text.split("/", 2)[0]: the text up to its first separator.
FirstSegment(text) ==
    LET seps == {k \in DOMAIN text : text[k] = Sep}
    IN  IF seps = {} THEN text
        ELSE SubSeq(text, 1, (CHOOSE k \in seps : \A m \in seps : k <= m) - 1)

\* get_action with the action casefolded.
get_action_casefold(path) == Casefold(FirstSegment(Strip(path)))

\* get_action, src/main.py:67-77
get_action(path) == FirstSegment(Strip(path))

\* ------------------------------------------------------------------- JSON

\* The escaping of one atom inside a JSON string literal (orjson.dumps,
\* SQLite's json_group_array and json_object).
EscapeAtom(c) ==
    IF c = Quote \/ c = Backslash THEN <<Backslash, c>> ELSE <<c>>

JsonEscape(text) == Flatten([k \in DOMAIN text |-> EscapeAtom(text[k])])

JsonString(text) == <<Quote>> \o JsonEscape(text) \o <<Quote>>

RECURSIVE JoinWith(_, _)
JoinWith(texts, sep) ==
    IF texts = <<>> THEN <<>>
    ELSE IF Len(texts) = 1 THEN Head(texts)
    ELSE Head(texts) \o sep \o JoinWith(Tail(texts), sep)

\* An array whose elements are put between quotes as they are.
JsonGroupArrayRaw(datas) ==
    <<"[">> \o JoinWith([k \in DOMAIN datas |-> <<Quote>> \o datas[k] \o <<Quote>>],
                        <<",">>)
        \o <<"]">>

\* SQLite json_group_array over a column of texts: compact, no whitespace.
JsonGroupArray(datas) ==
    <<"[">> \o JoinWith([k \in DOMAIN datas |-> JsonString(datas[k])], <<",">>)
        \o <<"]">>

\* Parsed JSON values.
JStr(text) == [t |-> "str", s |-> text]
JNum(n, frac) == [t |-> "num", n |-> n, frac |-> frac]
JArr(items) == [t |-> "arr", a |-> items]
JObj(members) == [t |-> "obj", o |-> members]
Malformed == [t |-> "malformed"]

ParseFail == [ok |-> FALSE]
ParseOk(v, next) == [ok |-> TRUE, v |-> v, i |-> next]

RECURSIVE SkipWs(_, _)
SkipWs(s, i) ==
    IF i <= Len(s) /\ s[i] \in {Space, Newline} THEN SkipWs(s, i + 1) ELSE i

RECURSIVE ParseString(_, _, _)
\* s[i..] after an opening quote; acc is the text decoded so far.
ParseString(s, i, acc) ==
    IF i > Len(s) THEN ParseFail
    ELSE IF s[i] = Quote THEN ParseOk(JStr(acc), i + 1)
    ELSE IF s[i] = Newline THEN ParseFail
    ELSE IF s[i] = Backslash
    THEN IF i + 1 <= Len(s) /\ s[i + 1] \in {Quote, Backslash, Sep}
         THEN ParseString(s, i + 2, Append(acc, s[i + 1]))
         ELSE ParseFail
    ELSE ParseString(s, i + 1, Append(acc, s[i]))

RECURSIVE ParseDigits(_, _, _)
ParseDigits(s, i, acc) ==
    IF i <= Len(s) /\ s[i] \in DigitSet
    THEN ParseDigits(s, i + 1, Append(acc, s[i]))
    ELSE [digits |-> acc, i |-> i]

RECURSIVE TextToInt(_)
TextToInt(digits) ==
    IF digits = <<>> THEN 0
    ELSE 10 * TextToInt(SubSeq(digits, 1, Len(digits) - 1))
            + DigitValue(digits[Len(digits)])

ParseNumber(s, i) ==
    LET whole == ParseDigits(s, i, <<>>)
    IN  IF whole.i <= Len(s) /\ s[whole.i] = "."
        THEN LET frac == ParseDigits(s, whole.i + 1, <<>>)
             IN  IF frac.digits = <<>> THEN ParseFail
                 ELSE ParseOk(JNum(TextToInt(whole.digits), frac.digits), frac.i)
        ELSE ParseOk(JNum(TextToInt(whole.digits), <<>>), whole.i)

RECURSIVE ParseValue(_, _)
RECURSIVE ParseElems(_, _, _)
RECURSIVE ParseMembers(_, _, _)

ParseValue(s, i) ==
    LET j == SkipWs(s, i)
    IN  IF j > Len(s) THEN ParseFail
        ELSE IF s[j] = Quote THEN ParseString(s, j + 1, <<>>)
        ELSE IF s[j] \in DigitSet THEN ParseNumber(s, j)
        ELSE IF s[j] = "["
        THEN LET k == SkipWs(s, j + 1)
             IN  IF k <= Len(s) /\ s[k] = "]" THEN ParseOk(JArr(<<>>), k + 1)
                 ELSE ParseElems(s, k, <<>>)
        ELSE IF s[j] = "{"
        THEN LET k == SkipWs(s, j + 1)
             IN  IF k <= Len(s) /\ s[k] = "}" THEN ParseOk(JObj(<<>>), k + 1)
                 ELSE ParseMembers(s, k, <<>>)
        ELSE ParseFail

\* The elements of an array from s[i..], up to and including its "]".
ParseElems(s, i, acc) ==
    LET e == ParseValue(s, i)
    IN  IF ~e.ok THEN ParseFail
        ELSE LET k == SkipWs(s, e.i)
             IN  IF k > Len(s) THEN ParseFail
                 ELSE IF s[k] = "," THEN ParseElems(s, k + 1, Append(acc, e.v))
                 ELSE IF s[k] = "]" THEN ParseOk(JArr(Append(acc, e.v)), k + 1)
                 ELSE ParseFail

\* The members of an object from s[i..], up to and including its "}".
ParseMembers(s, i, acc) ==
    LET j == SkipWs(s, i)
    IN  IF j > Len(s) \/ s[j] # Quote THEN ParseFail
        ELSE LET key == ParseString(s, j + 1, <<>>)
             IN  IF ~key.ok THEN ParseFail
                 ELSE LET c == SkipWs(s, key.i)
                      IN  IF c > Len(s) \/ s[c] # ":" THEN ParseFail
                          ELSE LET e == ParseValue(s, c + 1)
                               IN  IF ~e.ok THEN ParseFail
                                   ELSE LET k == SkipWs(s, e.i)
                                            m == Append(acc, <<key.v.s, e.v>>)
                                        IN  IF k > Len(s) THEN ParseFail
                                            ELSE IF s[k] = ","
                                            THEN ParseMembers(s, k + 1, m)
                                            ELSE IF s[k] = "}"
                                            THEN ParseOk(JObj(m), k + 1)
                                            ELSE ParseFail

\* json.loads / orjson.loads: one value, surrounded by optional whitespace.
Loads(s) ==
    LET r == ParseValue(s, 1)
    IN  IF r.ok /\ SkipWs(s, r.i) > Len(s) THEN r.v ELSE Malformed


RECURSIVE Dumps(_, _)
RECURSIVE DumpsMembers(_, _)

Indent(depth) == <<Newline>> \o [k \in 1..(2 * depth) |-> Space]

\* orjson.dumps(value, option=OPT_INDENT_2) of a value nested `depth` deep.
Dumps(v, depth) ==
    IF v.t = "str" THEN JsonString(v.s)
    ELSE IF v.t = "num" THEN IntToText(v.n)
    ELSE IF v.o = <<>> THEN <<"{", "}">>
    ELSE <<"{">> \o DumpsMembers(v.o, depth + 1) \o Indent(depth) \o <<"}">>

DumpsMembers(members, depth) ==
    LET m == Head(members)
        one == Indent(depth) \o JsonString(m[1]) \o <<":", Space>>
                   \o Dumps(m[2], depth)
    IN  IF Len(members) = 1 THEN one
        ELSE one \o <<",">> \o DumpsMembers(Tail(members), depth)

\* The keys and the lookup of a parsed object, as a Python dict has them
\* (of two members with one key, the later one stands).
Keys(obj) == {obj.o[k][1] : k \in DOMAIN obj.o}

Get(obj, key) ==
    LET at == {k \in DOMAIN obj.o : obj.o[k][1] = key}
    IN  obj.o[CHOOSE k \in at : \A m \in at : m <= k][2]

\* ----------------------------------------------------------------- bounds

\* Requests the server handles at the same time.
NumSlots == 2

\* Rows the response table holds at most: a POST is admitted while the rows
\* and the submits in flight stay below it.
MaxRows == 2

\* Runs of the catalog query: a load is started while fewer have run.
MaxLoads == 2

\* The longest path get_action is called with on its own.
MaxPath == 4

\* ------------------------------------------------------------ the inputs

Python == <<"P", "y", "t", "h", "o", "n">>
Curl == <<"c", "u", "r", "l">>

\* The user-agent header of a request: absent, an allowed one, another one.
Agents == {NoHeader, Header(Python), Header(Curl)}

\* Request paths: two seeded surveys, and a path made of a separator.
Paths == { <<Sep, "favorite">>, <<Sep, "task", Sep>>, <<Sep>> }

Methods == {"GET", "POST", "PUT"}

\* What the paths get_action is called with on its own are made of.
RouterAtoms == {Sep, "favorite", "Favorite"}

RouterPaths == UNION {[1..n -> RouterAtoms] : n \in 0..MaxPath}

\* Request bodies: plain text, and a quote followed by a backslash.
Bodies == { <<"a">>, <<Quote, Backslash>> }

\* ------------------------------------------------------------- the store

Expiry == 1669975200

\* dbinit's seed rows, src/main.py:151-172
Seeds ==
    << [title |-> <<"favorite">>,
        question |-> <<"What is your favorite type of snake OR favorite Monty Python quote?">>,
        expiry |-> Expiry],
       [title |-> <<"automation">>,
        question |-> <<"Name an automation tool or language you use for configuring or managing systems.">>,
        expiry |-> Expiry],
       [title |-> <<"task">>,
        question |-> <<"What is a task you wish you could script or automate?">>,
        expiry |-> Expiry] >>

\* json_object('question',question,'expiry',expiry): expiry is a FLOAT.
SurveyObject(row) ==
    <<"{">> \o JsonString(<<"question">>) \o <<":">> \o JsonString(row.question)
        \o <<",">> \o JsonString(<<"expiry">>) \o <<":">>
        \o IntToText(row.expiry) \o <<".", "0">> \o <<"}">>

\* SELECT json_group_object(title, json_object(...)) FROM survey
JsonGroupObject(rows) ==
    <<"{">>
        \o JoinWith([k \in DOMAIN rows |->
                        JsonString(rows[k].title) \o <<":">> \o SurveyObject(rows[k])],
                    <<",">>)
        \o <<"}">>

\* ------------------------------------------------------------- the state

VARIABLES
    tables,           \* survey.db: the tables that exist
    survey,           \* survey.db: the rows of table survey
    response,         \* survey.db: the rows of table response
    initPc,           \* the position of dbinit, run as its own process
    cacheExceptions,  \* whether the installed async_lru caches a raised exception
                      \* ("unknown" until get_surveys first raises)
    cache,            \* the alru_cache entry of get_surveys
    db,               \* per caller, its dbexecute call in flight
    req,              \* per slot, the request app is handling: its scope, its
                      \* locals, and what it has done (sent: calls of
                      \* proto.response_str; calls: calls of dbexecute; seen:
                      \* the POSTs answered with 200 when it came; rows: the
                      \* rows of table response when its select ran)
    ended,            \* the call of app that ended in the last step, if one
                      \* did: its request, its locals and what it passed to
                      \* proto.response_str, if anything
    ackLog,           \* the answers of the POSTs answered with 200, in order
    loads,            \* how often the catalog query of get_surveys has run:
                      \* with a result (ok) and with an exception (failed)
    routed,           \* a call of get_action on its own: its path, and the
                      \* action it returned
    conns             \* per caller, the connections to survey.db its
                      \* dbexecute calls have opened and not closed

vars ==
    <<tables, survey, response, initPc, cacheExceptions, cache, db, req, ended,
      ackLog, loads, routed, conns>>

Slots == 1..NumSlots

\* The task alru_cache creates to run get_surveys.
Loader == 0

Callers == Slots \cup {Loader}

Pending == [pending |-> TRUE]

\* cursor.fetchone(): a one-column row, or no row.
Row(text) == <<text>>
NoRow == <<>>

NoCall == [phase |-> "none", sql |-> "none", params |-> None, data |-> NoRow,
           error |-> FALSE]

\* dbexecute entered: src/main.py:28-32, before the connection is open.
DbCall(sql, params) ==
    [phase |-> "called", sql |-> sql, params |-> params, data |-> NoRow,
     error |-> FALSE]

IdleSlot ==
    [pc |-> "idle", agent |-> NoHeader, path |-> <<>>, method |-> "",
     fut |-> None, surveys |-> None, action |-> <<>>, answer |-> <<>>,
     code |-> 0, body |-> <<>>, sent |-> 0, calls |-> 0, seen |-> 0,
     rows |-> 0]

NoRoute == [pc |-> "none", path |-> <<>>, action |-> <<>>]

Init ==
    /\ tables = {}
    /\ survey = <<>>
    /\ response = <<>>
    /\ initPc = "create_response"
    /\ cacheExceptions = "unknown"
    /\ cache = [state |-> "empty", value |-> None]
    /\ db = [c \in Callers |-> NoCall]
    /\ req = [r \in Slots |-> IdleSlot]
    /\ ended = IdleSlot
    /\ ackLog = <<>>
    /\ loads = [ok |-> 0, failed |-> 0]
    /\ routed = NoRoute
    /\ conns = [c \in Callers |-> 0]

\* ---------------------------------------------------------------- dbinit

\* CREATE TABLE IF NOT EXISTS response, src/main.py:135-142
InitCreateResponse ==
    /\ initPc = "create_response"
    /\ tables' = tables \cup {"response"}
    /\ initPc' = "create_survey"
    /\ UNCHANGED <<conns, routed, loads, survey, response, cacheExceptions, cache, db, req, ackLog>>
    /\ ended' = IdleSlot

\* CREATE TABLE IF NOT EXISTS survey, src/main.py:143-150
InitCreateSurvey ==
    /\ initPc = "create_survey"
    /\ tables' = tables \cup {"survey"}
    /\ initPc' = "insert_survey"
    /\ UNCHANGED <<conns, routed, loads, survey, response, cacheExceptions, cache, db, req, ackLog>>
    /\ ended' = IdleSlot

\* executemany of the seed INSERT, src/main.py:173-177.  The SELECT that ends
\* dbinit, src/main.py:178-180, only prints what it reads.
InitInsertSurvey ==
    /\ initPc = "insert_survey"
    /\ survey' = survey \o Seeds
    /\ initPc' = "done"
    /\ UNCHANGED <<conns, routed, loads, tables, response, cacheExceptions, cache, db, req, ackLog>>
    /\ ended' = IdleSlot

\* -------------------------------------------------------------- dbexecute

\* The callers that hold an open connection: their call has connected, run
\* its statement and fetched (src/main.py:32-45) and has not left its
\* `async with` yet.
OpenConnections == {c \in Callers : conns[c] > 0}

\* A dbexecute over one connection for all calls: a call connects when no
\* other call holds the connection.
CanConnectShared(c) == OpenConnections \subseteq {c}

\* aiosqlite.connect at src/main.py:32 opens a connection of the call's own:
\* no call waits for another call's connection.
CanConnect(c) == TRUE

\* A dbexecute that returns without closing its connection.
NotClosed(n) == n

\* Leaving the `async with` of src/main.py:32, by return or by exception,
\* closes the connection the call opened.
Closed(n) == n - 1

\* The catalog query of get_surveys, src/main.py:56-60, run by cursor.execute
\* and fetched: it raises when the table does not exist.
ExecuteCatalog ==
    /\ db[Loader].phase = "called"
    /\ CanConnect(Loader)
    /\ db[Loader].sql = "catalog"
    /\ db' = [db EXCEPT ![Loader] =
                IF "survey" \in tables
                THEN [@ EXCEPT !.phase = "fetched",
                               !.data = Row(JsonGroupObject(survey))]
                ELSE [@ EXCEPT !.phase = "fetched", !.error = TRUE]]
    /\ loads' = IF "survey" \in tables THEN [loads EXCEPT !.ok = @ + 1]
                ELSE [loads EXCEPT !.failed = @ + 1]
    /\ conns' = [conns EXCEPT ![Loader] = @ + 1]
    /\ UNCHANGED <<routed, tables, survey, response, initPc, cacheExceptions, cache, req, ackLog>>
    /\ ended' = IdleSlot

\* An insert that keeps one row per title and answer.
InsertRowOnce(rows, params) ==
    IF \E k \in DOMAIN rows :
          rows[k].title = params.title /\ rows[k].data = params.data
    THEN rows
    ELSE Append(rows, [title |-> params.title, data |-> params.data,
                       agent |-> params.agent])

\* INSERT INTO response(title,data,agent) VALUES (:title,:data,:agent)
InsertRow(rows, params) ==
    Append(rows, [title |-> params.title, data |-> params.data,
                  agent |-> params.agent])

\* The insert of a submit, src/main.py:112-116.
ExecuteInsert(r) ==
    /\ db[r].phase = "called"
    /\ CanConnect(r)
    /\ db[r].sql = "insert"
    /\ IF "response" \in tables
       THEN /\ response' = InsertRow(response, db[r].params)
            /\ db' = [db EXCEPT ![r].phase = "fetched"]
       ELSE /\ response' = response
            /\ db' = [db EXCEPT ![r].phase = "fetched", ![r].error = TRUE]
    /\ conns' = [conns EXCEPT ![r] = @ + 1]
    /\ UNCHANGED <<routed, loads, tables, survey, initPc, cacheExceptions, cache, req, ackLog>>
    /\ ended' = IdleSlot

RECURSIVE RowsOf(_, _)
\* The rows of one survey: the select with WHERE title = :title.
RowsOf(rows, title) ==
    IF rows = <<>> THEN <<>>
    ELSE IF Head(rows).title = title THEN <<Head(rows)>> \o RowsOf(Tail(rows), title)
    ELSE RowsOf(Tail(rows), title)

\* The rows SELECT json_group_array(data) FROM response aggregates for a
\* request on survey `title`: the query has no WHERE clause.
SelectedRows(rows, title) == rows

\* The select of a retrieval, src/main.py:119-121.
ExecuteRetrieve(r) ==
    /\ db[r].phase = "called"
    /\ CanConnect(r)
    /\ db[r].sql = "retrieve"
    /\ db' = [db EXCEPT ![r] =
                IF "response" \in tables
                THEN LET rows == SelectedRows(response, req[r].action)
                     IN  [@ EXCEPT !.phase = "fetched",
                                   !.data = Row(JsonGroupArray(
                                       [k \in DOMAIN rows |-> rows[k].data]))]
                ELSE [@ EXCEPT !.phase = "fetched", !.error = TRUE]]
    /\ req' = [req EXCEPT ![r].rows = Len(response)]
    /\ conns' = [conns EXCEPT ![r] = @ + 1]
    /\ UNCHANGED <<routed, loads, tables, survey, response, initPc, cacheExceptions, cache, ackLog>>
    /\ ended' = IdleSlot

\* ------------------------------------------------------------ get_surveys

\* orjson.loads of the texts the catalog query returns for the tables dbinit
\* leaves behind, decoded once.
LoadedCatalogs ==
    [text \in {JsonGroupObject(<<>>), JsonGroupObject(Seeds)} |-> Loads(text)]

\* src/main.py:61-64: the mapping get_surveys returns for a fetched row.
SurveysOf(row) ==
    IF row = NoRow THEN JObj(<<>>)
    ELSE IF row[1] \in DOMAIN LoadedCatalogs THEN LoadedCatalogs[row[1]]
    ELSE Loads(row[1])

\* get_surveys' dbexecute leaves its `async with` (the connection closes) and
\* get_surveys returns or raises: alru_cache completes the future its callers
\* await, keeps a result, and keeps an exception only when it caches them.
LoaderReturn ==
    /\ db[Loader].phase = "fetched"
    /\ LET outcome == IF db[Loader].error THEN [ok |-> FALSE, value |-> None]
                      ELSE [ok |-> TRUE, value |-> SurveysOf(db[Loader].data)]
       IN  /\ cacheExceptions' \in
                 IF outcome.ok \/ cacheExceptions # "unknown" THEN {cacheExceptions}
                 ELSE {"yes", "no"}
           /\ cache' = IF outcome.ok THEN [state |-> "value", value |-> outcome.value]
                       ELSE IF cacheExceptions' = "yes"
                       THEN [state |-> "error", value |-> None]
                       ELSE [state |-> "empty", value |-> None]
           /\ req' = [r \in Slots |->
                        IF req[r].pc = "surveys" /\ req[r].fut = Pending
                        THEN [req[r] EXCEPT !.fut = outcome]
                        ELSE req[r]]
    /\ db' = [db EXCEPT ![Loader] = NoCall]
    /\ conns' = [conns EXCEPT ![Loader] = Closed(@)]
    /\ UNCHANGED <<routed, loads, tables, survey, response, initPc, ackLog>>
    /\ ended' = IdleSlot

\* -------------------------------------------------------------------- app

AllowPrefix == <<"p", "y", "t", "h", "o", "n">>

\* src/main.py:101: agent.casefold().startswith("python")
Allowed(agent) == StartsWith(Casefold(agent.value), AllowPrefix)

\* body_json initialised to the empty text instead of the JSON text "".
PlaceholderEmpty == <<>>

\* src/main.py:97: the placeholder body, the JSON text "".
Placeholder == <<Quote, Quote>>

NotAllowedMessage == <<"Try using a Python HTTP client">>

\* The message without the name of the survey.
NotFoundMessageNoName(action) == <<"Could not find any survey called ">>

\* src/main.py:106
NotFoundMessage(action) == <<"Could not find any survey called ">> \o action

\* An envelope without the "error" member around code and message.
EnvelopeFlat(code, message) ==
    Dumps(JObj(<< <<<<"code">>, JNum(code, <<>>)>>,
                  <<<<"message">>, JStr(message)>> >>), 0)
        \o <<Newline>>

\* src/main.py:126-129: the error envelope, indented by 2, newline appended.
Envelope(code, message) ==
    Dumps(JObj(<< <<<<"error">>,
                    JObj(<< <<<<"code">>, JNum(code, <<>>)>>,
                            <<<<"message">>, JStr(message)>> >>)>> >>), 0)
        \o <<Newline>>

\* src/main.py:117: the answer is put between escaped quotes as it is.
SubmitBody(answer) ==
    <<Quote, "Successfully submitted answer ", Backslash, Quote>> \o answer
        \o <<Backslash, Quote, ".", Quote>>

\* src/main.py:119-123: the body of a retrieval for a fetched row.
RetrieveBody(row) ==
    IF row = NoRow THEN Placeholder ELSE row[1]

\* src/main.py:125-130: the one call of proto.response_str.
Render(q, code, message, body_json) ==
    [q EXCEPT !.pc = "done",
              !.code = code,
              !.body = IF code # 200 THEN Envelope(code, message) ELSE body_json,
              !.sent = @ + 1]

\* An app that catches the exception and answers with an envelope.
RaiseCaught(q) == Render(q, 500, <<"Internal Server Error">>, Placeholder)

\* An exception leaves app: nothing is sent.  src/main.py:101 raises for a
\* request without the header (None has no casefold).
Raise(q) == [q EXCEPT !.pc = "raised"]

\* app without the `elif action not in surveys:` branch of src/main.py:104.
DispatchNoCatalog(q, surveys, path, method) ==
    LET action == get_action(path)
        q1 == [q EXCEPT !.fut = None, !.surveys = surveys, !.path = path,
                        !.method = method, !.action = action,
                        !.seen = IF method = "GET" THEN @ ELSE 0]
    IN  IF ~q.agent.present THEN Raise(q1)
        ELSE IF ~Allowed(q.agent)
        THEN Render(q1, 451, NotAllowedMessage, Placeholder)
        ELSE IF method = "POST" THEN [q1 EXCEPT !.pc = "body"]
        ELSE IF method = "GET" THEN [q1 EXCEPT !.pc = "select"]
        ELSE Render(q1, 200, <<>>, Placeholder)

\* app with `else:` for `elif scope.method == "GET":` at src/main.py:118.
DispatchElse(q, surveys, path, method) ==
    LET action == get_action(path)
        q1 == [q EXCEPT !.fut = None, !.surveys = surveys, !.path = path,
                        !.method = method, !.action = action,
                        !.seen = IF method = "GET" THEN @ ELSE 0]
    IN  IF ~q.agent.present THEN Raise(q1)
        ELSE IF ~Allowed(q.agent)
        THEN Render(q1, 451, NotAllowedMessage, Placeholder)
        ELSE IF action \notin Keys(surveys)
        THEN Render(q1, 404, NotFoundMessage(action), Placeholder)
        ELSE IF method = "POST" THEN [q1 EXCEPT !.pc = "body"]
        ELSE [q1 EXCEPT !.pc = "select"]

\* src/main.py:100-130 once get_surveys has returned `surveys`, for the path
\* and the method the scope holds, up to the next await or to the end of app.
Dispatch(q, surveys, path, method) ==
    LET action == get_action(path)
        q1 == [q EXCEPT !.fut = None, !.surveys = surveys, !.path = path,
                        !.method = method, !.action = action,
                        !.seen = IF method = "GET" THEN @ ELSE 0]
    IN  IF ~q.agent.present THEN Raise(q1)
        ELSE IF ~Allowed(q.agent)
        THEN Render(q1, 451, NotAllowedMessage, Placeholder)
        ELSE IF action \notin Keys(surveys)
        THEN Render(q1, 404, NotFoundMessage(action), Placeholder)
        ELSE IF method = "POST" THEN [q1 EXCEPT !.pc = "body"]
        ELSE IF method = "GET" THEN [q1 EXCEPT !.pc = "select"]
        ELSE Render(q1, 200, <<>>, Placeholder)

\* The dbexecute call a slot enters with its new position.
CallOf(q) ==
    IF q.pc = "select" THEN DbCall("retrieve", None)
    ELSE IF q.pc = "insert"
    THEN DbCall("insert", [title |-> q.action, data |-> q.answer,
                           agent |-> q.agent.value])
    ELSE NoCall

\* The submits admitted that have not written their row yet.
SubmitsAhead ==
    Cardinality({r \in Slots :
        \/ req[r].pc = "body"
        \/ req[r].pc = "insert" /\ db[r].phase = "called"})

\* The model admits a submit while the response table stays within MaxRows.
Admitted(next) ==
    next.pc = "body" => Len(response) + SubmitsAhead < MaxRows

\* Slot r goes on as `next`, having called dbexecute if `next` says so; a
\* call of app that has ended frees its slot.
Settle(r, next) ==
    IF next.pc \in {"done", "raised"}
    THEN /\ req' = [req EXCEPT ![r] = IdleSlot]
         /\ ended' = next
    ELSE /\ req' = [req EXCEPT ![r] =
                      [next EXCEPT !.calls = IF CallOf(next) = NoCall THEN @
                                             ELSE @ + 1]]
         /\ ended' = IdleSlot

\* A call of app takes the first free slot: which slot holds a call says
\* nothing about it.
Free(r) ==
    /\ req[r].pc = "idle"
    /\ \A s \in Slots : s < r => req[s].pc # "idle"

\* A get_surveys that reads the table on every call (no alru_cache).
Reloaded == SurveysOf(Row(JsonGroupObject(survey)))

\* What get_surveys returns from a filled cache, src/main.py:49-50.
Memoized == cache.value

\* The locals of app after src/main.py:96-98.
Entered(agent) ==
    [IdleSlot EXCEPT !.pc = "surveys", !.agent = agent, !.fut = Pending,
                     !.body = Placeholder, !.seen = Len(ackLog)]

\* app is called with a request, src/main.py:96-99, and get_surveys finds its
\* cache filled: it returns without suspending and app runs on to its next
\* await or to its end.  The scope's path and method are drawn where app
\* reads them, src/main.py:100 and 109.
RequestHit(r, agent, path, method) ==
    /\ Free(r)
    /\ cache.state = "value"
    /\ LET next == Dispatch(Entered(agent), Memoized, path, method)
       IN  /\ Admitted(next)
           /\ Settle(r, next)
           /\ db' = [db EXCEPT ![r] = CallOf(next)]
    /\ UNCHANGED <<conns, routed, loads, tables, survey, response, initPc, cacheExceptions, cache, ackLog>>

\* A cache that starts a load for every call that finds no result, also
\* while a load is in flight.
StartsLoadAlways == cache.state # "value"

\* alru_cache starts get_surveys as a task when its cache holds neither a
\* result nor a load in flight; the calls that come while the load is in
\* flight await its future.
StartsLoad == cache.state = "empty"

\* app is called with a request, src/main.py:96-99, and get_surveys finds no
\* result in its cache: a cached exception is raised again; otherwise app
\* awaits the future of the load in flight, which alru_cache starts as a task
\* when there is none.
RequestMiss(r, agent) ==
    /\ Free(r)
    /\ cache.state # "value"
    /\ StartsLoad => loads.ok + loads.failed < MaxLoads
    /\ Settle(r, IF cache.state = "error" THEN Raise(Entered(agent))
                 ELSE Entered(agent))
    /\ db' = [db EXCEPT ![Loader] = IF StartsLoad
                                    THEN DbCall("catalog", None) ELSE @]
    /\ cache' = IF StartsLoad
                THEN [state |-> "pending", value |-> None] ELSE cache
    /\ UNCHANGED <<conns, routed, loads, tables, survey, response, initPc, cacheExceptions, ackLog>>

\* app resumes at src/main.py:99 with the mapping of the future it awaited.
Resume(r, path, method) ==
    /\ req[r].pc = "surveys"
    /\ req[r].fut # Pending
    /\ req[r].fut.ok
    /\ LET next == Dispatch(req[r], req[r].fut.value, path, method)
       IN  /\ Admitted(next)
           /\ Settle(r, next)
           /\ db' = [db EXCEPT ![r] = CallOf(next)]
    /\ UNCHANGED <<conns, routed, loads, tables, survey, response, initPc, cacheExceptions, cache, ackLog>>

\* The future app awaited at src/main.py:99 holds get_surveys' exception.
ResumeRaise(r) ==
    /\ req[r].pc = "surveys"
    /\ req[r].fut # Pending
    /\ ~req[r].fut.ok
    /\ Settle(r, Raise(req[r]))
    /\ UNCHANGED <<conns, routed, loads, tables, survey, response, initPc, cacheExceptions, cache, db,
                   ackLog>>

\* src/main.py:110-112: the body arrives, is decoded, and dbexecute is called.
ReadBody(r, body) ==
    /\ req[r].pc = "body"
    /\ LET next == [req[r] EXCEPT !.pc = "insert", !.answer = body]
       IN  /\ Settle(r, next)
           /\ db' = [db EXCEPT ![r] = CallOf(next)]
    /\ UNCHANGED <<conns, routed, loads, tables, survey, response, initPc, cacheExceptions, cache, ackLog>>

\* The insert's dbexecute returns or raises, src/main.py:112-117, 125-130.
SubmitReturn(r) ==
    /\ req[r].pc = "insert"
    /\ db[r].phase = "fetched"
    /\ IF db[r].error
       THEN /\ Settle(r, Raise(req[r]))
            /\ ackLog' = ackLog
       ELSE /\ Settle(r, Render(req[r], 200, <<>>, SubmitBody(req[r].answer)))
            /\ ackLog' = Append(ackLog, req[r].answer)
    /\ db' = [db EXCEPT ![r] = NoCall]
    /\ conns' = [conns EXCEPT ![r] = Closed(@)]
    /\ UNCHANGED <<routed, loads, tables, survey, response, initPc, cacheExceptions, cache>>

\* The select's dbexecute returns or raises, src/main.py:119-123, 125-130.
RetrieveReturn(r) ==
    /\ req[r].pc = "select"
    /\ db[r].phase = "fetched"
    /\ Settle(r, IF db[r].error THEN Raise(req[r])
                  ELSE Render(req[r], 200, <<>>, RetrieveBody(db[r].data)))
    /\ db' = [db EXCEPT ![r] = NoCall]
    /\ conns' = [conns EXCEPT ![r] = Closed(@)]
    /\ UNCHANGED <<routed, loads, tables, survey, response, initPc, cacheExceptions, cache, ackLog>>

Next ==
    \/ InitCreateResponse
    \/ InitCreateSurvey
    \/ InitInsertSurvey
    \/ \E r \in Slots, agent \in Agents, path \in Paths, method \in Methods :
          RequestHit(r, agent, path, method)
    \/ \E r \in Slots, agent \in Agents : RequestMiss(r, agent)
    \/ \E r \in Slots, path \in Paths, method \in Methods : Resume(r, path, method)
    \/ \E r \in Slots : ResumeRaise(r)
    \/ \E r \in Slots, body \in Bodies : ReadBody(r, body)
    \/ ExecuteCatalog
    \/ \E r \in Slots : ExecuteInsert(r)
    \/ \E r \in Slots : ExecuteRetrieve(r)
    \/ LoaderReturn
    \/ \E r \in Slots : SubmitReturn(r)
    \/ \E r \in Slots : RetrieveReturn(r)

Spec == Init /\ [][Next]_vars

\* The steps of slot r's call of app once it is entered, those of its
\* dbexecute call, and those of the catalog load it may await.
StepOf(r) ==
    \/ \E path \in Paths, method \in Methods : Resume(r, path, method)
    \/ ResumeRaise(r)
    \/ \E body \in Bodies : ReadBody(r, body)
    \/ ExecuteInsert(r)
    \/ ExecuteRetrieve(r)
    \/ SubmitReturn(r)
    \/ RetrieveReturn(r)
    \/ ExecuteCatalog
    \/ LoaderReturn

\* The statement of a dbexecute call raises, src/main.py:32-41 (the database
\* is locked, the file cannot be opened or written): nothing is written, and
\* the exception leaves dbexecute through its `async with`.
ExecuteFails(c) ==
    /\ db[c].phase = "called"
    /\ CanConnect(c)
    /\ db' = [db EXCEPT ![c].phase = "fetched", ![c].error = TRUE]
    /\ loads' = IF c = Loader THEN [loads EXCEPT !.failed = @ + 1] ELSE loads
    /\ conns' = [conns EXCEPT ![c] = @ + 1]
    /\ UNCHANGED <<routed, tables, survey, response, initPc, cacheExceptions, cache,
                   req, ackLog>>
    /\ ended' = IdleSlot

\* The program over a storage whose statements may fail.
NextFaults ==
    \/ Next
    \/ \E c \in Callers : ExecuteFails(c)

SpecFaults == Init /\ [][NextFaults]_vars

\* get_action is called with a path, src/main.py:67.
InitRouter ==
    /\ tables = {}
    /\ survey = <<>>
    /\ response = <<>>
    /\ initPc = "create_response"
    /\ cacheExceptions = "unknown"
    /\ cache = [state |-> "empty", value |-> None]
    /\ db = [c \in Callers |-> NoCall]
    /\ req = [r \in Slots |-> IdleSlot]
    /\ ended = IdleSlot
    /\ ackLog = <<>>
    /\ loads = [ok |-> 0, failed |-> 0]
    /\ conns = [c \in Callers |-> 0]
    /\ \E path \in RouterPaths :
          routed = [pc |-> "called", path |-> path, action |-> <<>>]

\* get_action returns, src/main.py:76-77.
GetActionReturn ==
    /\ routed.pc = "called"
    /\ routed' = [routed EXCEPT !.pc = "returned",
                                !.action = get_action(routed.path)]
    /\ UNCHANGED <<tables, survey, response, initPc, cacheExceptions, cache, db,
                   req, ended, ackLog, loads, conns>>

NextRouter == GetActionReturn

SpecRouter == InitRouter /\ [][NextRouter]_vars

\* dbexecute returns what cursor.fetchone() returns, src/main.py:42-43, and
\* declares None among its results, src/main.py:16: the select of a retrieval
\* on an empty table comes back with no row.
ExecuteRetrieveNoRow(r) ==
    /\ db[r].phase = "called"
    /\ CanConnect(r)
    /\ db[r].sql = "retrieve"
    /\ "response" \in tables
    /\ response = <<>>
    /\ db' = [db EXCEPT ![r].phase = "fetched", ![r].data = NoRow]
    /\ req' = [req EXCEPT ![r].rows = 0]
    /\ conns' = [conns EXCEPT ![r] = @ + 1]
    /\ UNCHANGED <<routed, loads, tables, survey, response, initPc, cacheExceptions, cache, ackLog>>
    /\ ended' = IdleSlot

\* The program over an accessor that may return either result for the
\* aggregate select on an empty table.
NextAnyFetch ==
    \/ Next
    \/ \E r \in Slots : ExecuteRetrieveNoRow(r)

SpecAnyFetch == Init /\ [][NextAnyFetch]_vars

\* ------------------------------------------------------------- the claims

\* A call of app ended in the last step.
Ended == ended.pc \in {"done", "raised"}

\* A call of app ended in the last step, having called proto.response_str.
Answered == ended.pc = "done"

\* The user-agent of the call that ended is present and allow-listed.
AllowedClient == ended.agent.present /\ Allowed(ended.agent)

\* The elements of a parsed array.
Elements(v) == {v.a[k] : k \in DOMAIN v.a}

\* v is {"error": {"code": <integer>, "message": <string>}} and nothing more.
IsEnvelope(v) ==
    /\ v.t = "obj"
    /\ Len(v.o) = 1
    /\ v.o[1][1] = <<"error">>
    /\ LET e == v.o[1][2]
       IN  /\ e.t = "obj"
           /\ Len(e.o) = 2
           /\ Keys(e) = {<<"code">>, <<"message">>}
           /\ Get(e, <<"code">>).t = "num"
           /\ Get(e, <<"code">>).frac = <<>>
           /\ Get(e, <<"message">>).t = "str"

EnvelopeCode(v) == Get(v.o[1][2], <<"code">>).n

EnvelopeMessage(v) == Get(v.o[1][2], <<"message">>).s

\* C1: every call of app whose user-agent header is missing or does not start
\* with "python" (whatever its case) is answered with status 451.  The calls
\* whose get_surveys raised are left out: those stand under the storage
\* failure, not under the client check.
C1_Rejected ==
    (Ended /\ ended.surveys # None /\ ~AllowedClient)
        => (Answered /\ ended.code = 451)

\* C2: a GET or POST of an allowed client whose action is not a key of the
\* catalog get_surveys returned from the cache is answered with 404 and the
\* envelope message "Could not find any survey called <action>".
C2_NotFound ==
    (/\ Ended
     /\ AllowedClient
     /\ ended.surveys # None
     /\ ended.method \in {"GET", "POST"}
     /\ get_action(ended.path) \notin Keys(ended.surveys))
        => /\ Answered
           /\ ended.code = 404
           /\ ended.surveys = cache.value
           /\ IsEnvelope(Loads(ended.body))
           /\ EnvelopeMessage(Loads(ended.body))
                = <<"Could not find any survey called ">> \o get_action(ended.path)

\* C2 witness: a POST and a path made of a separator, answered with 404.
C2_Witness ==
    /\ Answered
    /\ ended.code = 404
    /\ ended.method = "POST"
    /\ ended.path = <<Sep>>
    /\ ended.action = <<>>

\* The rows written by inserts whose call of app has not ended yet.
WrittenUnanswered(b) ==
    Cardinality({r \in Slots :
        /\ req[r].pc = "insert"
        /\ db[r].phase = "fetched"
        /\ ~db[r].error
        /\ req[r].answer = b})

Count(seq, x) == Cardinality({k \in DOMAIN seq : seq[k] = x})

\* C3: every POST answered with 200 has added one row of its own: for each
\* answer text, the rows holding it are as many as the POSTs answered with
\* 200 for it plus the inserts done whose 200 is still to come.
C3_OneRowPerSubmit ==
    \A b \in Bodies :
        Count([k \in DOMAIN response |-> response[k].data], b)
            = Count(ackLog, b) + WrittenUnanswered(b)

\* C3 witness: two POSTs of one body to one survey answered with 200, and two
\* equal rows.
C3_Witness ==
    /\ Len(ackLog) = 2
    /\ ackLog[1] = ackLog[2]
    /\ Len(response) = 2
    /\ response[1] = response[2]

\* C4: a GET that came after a POST was answered with 200, and is itself
\* answered with 200, returns a JSON array holding that POST's answer.
C4_RoundTrip ==
    (Answered /\ ended.method = "GET" /\ ended.code = 200)
        => /\ Loads(ended.body).t = "arr"
           /\ \A k \in 1..ended.seen :
                  JStr(ackLog[k]) \in Elements(Loads(ended.body))

\* C4 witness: a GET on one survey that came after a POST with a quote and a
\* backslash in its body to another survey was answered with 200.
C4_Witness ==
    /\ Answered
    /\ ended.method = "GET"
    /\ ended.code = 200
    /\ ended.seen >= 1
    /\ ackLog[1] = <<Quote, Backslash>>
    /\ response[1].title # ended.action

\* The mappings get_surveys has returned to the calls of app in a state.
Returned(rq, e) ==
    {rq[r].surveys : r \in {x \in Slots : rq[x].surveys # None}}
        \cup (IF e.surveys # None THEN {e.surveys} ELSE {})

\* C5: once get_surveys has returned a mapping, the cache keeps it and every
\* call returns it, whatever happens to table survey; so a survey inserted
\* after the load is still answered with 404.
C5_CacheConsistent ==
    [][/\ cache.state = "value" => cache' = cache
       /\ Returned(req', ended') \subseteq {cache'.value}
       /\ (/\ ended'.pc \in {"done", "raised"}
           /\ ended'.agent.present
           /\ Allowed(ended'.agent)
           /\ ended'.surveys # None
           /\ ended'.action \notin Keys(cache'.value))
              => ended'.code = 404]_vars

\* C5 witness: a request for a survey that table survey holds, and the cached
\* mapping does not, was answered with 404.
C5_Witness ==
    /\ Answered
    /\ ended.code = 404
    /\ \E k \in DOMAIN survey : survey[k].title = ended.action
    /\ cache.state = "value"
    /\ ended.action \notin Keys(cache.value)

\* C6: a response whose status is not 200 has the envelope as its body, with
\* the status as its code; a response with status 200 has not.
C6_EnvelopeShape ==
    Answered =>
        IF ended.code # 200
        THEN /\ IsEnvelope(Loads(ended.body))
             /\ EnvelopeCode(Loads(ended.body)) = ended.code
        ELSE ~IsEnvelope(Loads(ended.body))

\* C6 witness: responses with 451 and with 404 have been sent (here: a 404).
C6_Witness ==
    /\ Answered
    /\ ended.code = 404
    /\ ended.action = <<"favorite">>

\* C7: the body of the 200 of a POST with body B is one JSON string literal
\* that decodes to: Successfully submitted answer "B".
C7_SubmitBodyDecodes ==
    (Answered /\ ended.method = "POST" /\ ended.code = 200)
        => Loads(ended.body)
             = JStr(<<"Successfully submitted answer ", Quote>> \o ended.answer
                        \o <<Quote, ".">>)

\* C8: the 200 of a GET holds a JSON array with one element per row that
\* table response held when the select ran, whatever the row's survey.
C8_Unscoped ==
    (Answered /\ ended.method = "GET" /\ AllowedClient
        /\ ended.action \in Keys(ended.surveys))
        => /\ ended.code = 200
           /\ ended.rows <= Len(response)
           /\ Loads(ended.body)
                = JArr([k \in 1..ended.rows |-> JStr(response[k].data)])

\* C8 witness: a GET on a survey returned two rows, one of another survey.
C8_Witness ==
    /\ Answered
    /\ ended.method = "GET"
    /\ ended.code = 200
    /\ ended.rows = 2
    /\ \E k \in 1..ended.rows : response[k].title # ended.action
    /\ \E k \in 1..ended.rows : response[k].title = ended.action

\* C9 as stated: an answered request has called dbexecute once, unless it was
\* answered with 451 or 404, and then not at all.
C9_OneAccess ==
    Answered => ended.calls = IF ended.code \in {451, 404} THEN 0 ELSE 1

\* C9, amended: a GET or POST answered with 200 has called dbexecute once
\* beside the catalog read; a request answered with 451 or 404, or with any
\* other method, has not called it, and the step that answers it leaves
\* table response as it is.
C9_AccessesByMethod ==
    [][ended'.pc = "done" =>
          IF ended'.code = 200 /\ ended'.method \in {"GET", "POST"}
          THEN ended'.calls = 1
          ELSE ended'.calls = 0 /\ response' = response]_vars

\* C9 witness: a PUT on a catalog survey was answered with 200.
C9_Witness ==
    /\ Answered
    /\ ended.method = "PUT"
    /\ ended.code = 200
    /\ ended.calls = 0
    /\ Len(response) > 0

\* C10: a call of app that has ended has called proto.response_str once.  The
\* calls whose get_surveys raised are left out.
C10_OneResponse ==
    (Ended /\ ended.surveys # None) => (Answered /\ ended.sent = 1)

\* C11: the client check comes before the catalog: a call of app whose
\* user-agent header is missing or not allow-listed never awaits get_surveys,
\* has not been handed the mapping when it ends, and ends answered with 451.
C11_CheckBeforeCatalog ==
    /\ \A r \in Slots :
          req[r].pc = "surveys"
              => (req[r].agent.present /\ Allowed(req[r].agent))
    /\ (Ended /\ ~AllowedClient)
          => (Answered /\ ended.code = 451 /\ ended.surveys = None)

\* C12 as stated: the catalog query of get_surveys runs at most once in the
\* life of the process, and every mapping get_surveys has returned is the one
\* the cache holds.
C12_QueryOnce ==
    /\ loads.ok + loads.failed <= 1
    /\ Returned(req, ended) \subseteq {cache.value}

\* C12, amended: the catalog query runs with a result at most once, a load in
\* flight is not started again by the calls that come meanwhile, and once the
\* cache holds a mapping the query never runs again, the mapping stays, and
\* every call of get_surveys has returned it.  A query that raised fills
\* nothing: a later call may run it again.
C12_LoadedOnce ==
    [][/\ loads'.ok <= 1
       /\ cache.state = "pending"
             => (db'[Loader].phase = "called" => db[Loader].phase = "called")
       /\ cache.state = "value" => (cache' = cache /\ loads' = loads)
       /\ Returned(req', ended') \subseteq {cache'.value}]_vars

\* C12 witness: the query raised once and then ran with a result, and two
\* calls of app that awaited that one load hold its mapping.
C12_Witness ==
    /\ loads = [ok |-> 1, failed |-> 1]
    /\ cache.state = "value"
    /\ \A r \in Slots :
          /\ req[r].pc = "surveys"
          /\ req[r].fut # Pending
          /\ req[r].fut.ok
          /\ req[r].fut.value = cache.value

\* C13: table response changes only by one row appended for a POST in
\* flight: its title is the request's action and a key of the cached
\* catalog, its data is the body read, its agent is the request's header,
\* which is allow-listed.  A request answered with 451 or 404 has called
\* dbexecute for no row, and the step that answers it writes none.
C13_RowsOfSubmits ==
    [][/\ response' # response
             => \E r \in Slots :
                   /\ req[r].pc = "insert"
                   /\ req[r].method = "POST"
                   /\ response' = Append(response,
                                         [title |-> get_action(req[r].path),
                                          data |-> req[r].answer,
                                          agent |-> req[r].agent.value])
                   /\ cache.state = "value"
                   /\ get_action(req[r].path) \in Keys(cache.value)
                   /\ req[r].agent.present
                   /\ Allowed(req[r].agent)
                   /\ req[r].answer \in Bodies
       /\ (ended'.pc = "done" /\ ended'.code \in {451, 404})
             => (ended'.calls = 0 /\ response' = response)]_vars

\* C13 witness: a POST on /task/ has written its row, body with a quote and
\* a backslash, and a POST on a path that names no survey was answered 404.
C13_Witness ==
    /\ Len(response) = 1
    /\ response[1] = [title |-> <<"task">>, data |-> <<Quote, Backslash>>,
                      agent |-> Python]
    /\ Answered
    /\ ended.code = 404
    /\ ended.method = "POST"

\* C14: a call of app from an allowed client for a survey of the catalog with
\* a method other than GET and POST ends answered with status 200 and the
\* body "" (two quotes, the empty JSON string), without a call of dbexecute,
\* and the step that answers it leaves table response as it is.
C14_OtherMethod ==
    [][(/\ ended'.pc \in {"done", "raised"}
        /\ ended'.agent.present
        /\ Allowed(ended'.agent)
        /\ ended'.surveys # None
        /\ get_action(ended'.path) \in Keys(ended'.surveys)
        /\ ended'.method \notin {"GET", "POST"})
          => /\ ended'.pc = "done"
             /\ ended'.code = 200
             /\ ended'.body = <<Quote, Quote>>
             /\ Loads(ended'.body) = JStr(<<>>)
             /\ ended'.sent = 1
             /\ ended'.calls = 0
             /\ response' = response]_vars

\* C14 witness: a PUT on /task/ from an allowed client was answered with the
\* placeholder while another request's insert is in flight.
C14_Witness ==
    /\ Answered
    /\ ended.method = "PUT"
    /\ ended.path = <<Sep, "task", Sep>>
    /\ ended.code = 200
    /\ ended.body = <<Quote, Quote>>
    /\ \E r \in Slots : req[r].pc = "insert"

\* C15: a GET of an allowed client for a survey of the catalog whose select
\* ran on an empty table response is answered with status 200 and the empty
\* JSON array, whether the accessor returned a row holding [] or no row.
C15_EmptyArray ==
    (/\ Ended
     /\ ended.method = "GET"
     /\ AllowedClient
     /\ ended.surveys # None
     /\ ended.action \in Keys(ended.surveys)
     /\ ended.rows = 0)
        => /\ Answered
           /\ ended.code = 200
           /\ ended.body # <<Quote, Quote>>
           /\ Loads(ended.body) = JArr(<<>>)

\* The separators of a path, and the places where it holds something else.
SepsOf(path) == {k \in DOMAIN path : path[k] = Sep}

OthersOf(path) == DOMAIN path \ SepsOf(path)

\* The path from its first place that is no separator up to the separator
\* that follows it, or up to the end.
CutOf(path) ==
    IF OthersOf(path) = {} THEN <<>>
    ELSE LET first == CHOOSE k \in OthersOf(path) : \A m \in OthersOf(path) : k <= m
             after == {k \in SepsOf(path) : k > first} \cup {Len(path) + 1}
             stop == CHOOSE k \in after : \A m \in after : k <= m
         IN  [k \in 1..(stop - first) |-> path[first + k - 1]]

\* C16: what get_action returns for a path is the path without its leading
\* and trailing separators, cut at the first separator left; it holds no
\* separator, is empty exactly when the path holds nothing but separators,
\* and holds the path's own characters, upper case too.
C16_Action ==
    routed.pc = "returned"
        => /\ routed.action = CutOf(routed.path)
           /\ SepsOf(routed.action) = {}
           /\ (routed.action = <<>>) <=> (OthersOf(routed.path) = {})
           /\ \A k \in DOMAIN routed.action :
                  \E m \in DOMAIN routed.path : routed.path[m] = routed.action[k]

\* C16 witness: get_action returned Favorite for /Favorite/favorite.
C16_Witness ==
    /\ routed.pc = "returned"
    /\ routed.path = <<Sep, "Favorite", Sep, "favorite">>
    /\ routed.action = <<"Favorite">>

\* The future slot r awaits holds get_surveys' exception.
LoadFailed(r) ==
    /\ req[r].pc = "surveys"
    /\ req[r].fut # Pending
    /\ ~req[r].fut.ok

\* C17: a dbexecute call that has raised is not made again, and the call of
\* app it belongs to ends by the exception: nothing is sent, the query of
\* that call has run once, and neither the failing statement nor the step
\* that ends the call changes table response.
C17_FailurePropagates ==
    [][/\ \A c \in Callers :
             /\ (db[c].phase = "called" /\ db'[c].error)
                   => (response' = response /\ db'[c].phase = "fetched")
             /\ (db[c].phase = "fetched" /\ db[c].error)
                   => db'[c] \in {db[c], NoCall}
       /\ db[Loader].phase = "called" /\ db'[Loader].error
             => loads'.ok + loads'.failed = loads.ok + loads.failed + 1
       /\ \A r \in Slots :
             /\ (db[r].phase = "fetched" /\ db[r].error /\ db'[r] # db[r])
                   => /\ req'[r] = IdleSlot
                      /\ ended'.pc = "raised"
                      /\ ended'.sent = 0
                      /\ ended'.calls = 1
                      /\ response' = response
                      /\ ackLog' = ackLog
             /\ (LoadFailed(r) /\ req'[r] # req[r])
                   => /\ req'[r] = IdleSlot
                      /\ ended'.pc = "raised"
                      /\ ended'.sent = 0
                      /\ ended'.calls = 0
                      /\ db'[Loader] = db[Loader]
                      /\ response' = response]_vars

\* C17 witness: a POST whose insert raised has ended by the exception, after
\* another POST was answered with 200: the table holds that one row only.
C17_Witness ==
    /\ ended.pc = "raised"
    /\ ended.method = "POST"
    /\ ended.calls = 1
    /\ ended.answer \in Bodies
    /\ Len(ackLog) = 1
    /\ Len(response) = 1

\* The dbexecute calls in flight: entered and not yet returned or raised.
InFlight == {c \in Callers : db[c].phase # "none"}

RECURSIVE OpenCount(_)
\* The connections open, over a set of callers.
OpenCount(callers) ==
    IF callers = {} THEN 0
    ELSE LET c == CHOOSE x \in callers : TRUE
         IN  conns[c] + OpenCount(callers \ {c})

\* C19 as stated: in every state the open connections are as many as the
\* dbexecute calls in flight.
C19_OpenEqualsInFlight == OpenCount(Callers) = Cardinality(InFlight)

\* C19, amended: a caller without a call in flight holds no connection (the
\* one its call opened was closed when the call returned or raised); a call
\* that has been entered and has not connected yet holds none; a call that
\* has connected holds one, its own.  So the open connections are as many as
\* the calls in flight that have connected, and never more than the calls in
\* flight.
C19_OwnConnection ==
    /\ \A c \in Callers :
          conns[c] = IF db[c].phase = "fetched" THEN 1 ELSE 0
    /\ OpenConnections \subseteq InFlight
    /\ OpenCount(Callers) <= Cardinality(InFlight)

\* C19 witness: a dbexecute call has raised and its call of app has ended,
\* its connection closed, while the other request's call holds its own.
C19_Witness ==
    /\ ended.pc = "raised"
    /\ ended.calls = 1
    /\ OpenCount(Callers) = 1
    /\ Cardinality(InFlight) = 1
    /\ \E r \in Slots : req[r].pc = "idle" /\ conns[r] = 0
    /\ \E r \in Slots : req[r].pc = "insert" /\ conns[r] = 1

\* How far the call of app q has come, with `call` its dbexecute call and
\* `load` that of the catalog load: from awaiting get_surveys to its end.
Progress(q, call, load) ==
    IF q.pc = "surveys"
    THEN (IF q.fut # Pending THEN 2 ELSE IF load.phase = "fetched" THEN 1 ELSE 0)
    ELSE IF q.pc = "body" THEN 3
    ELSE IF q.pc \in {"insert", "select"}
    THEN (IF call.phase = "fetched" THEN 5 ELSE 4)
    ELSE 6

\* C18: in every state, whatever the other requests wait for (their body,
\* their query, the catalog load), each call of app in flight has a step of
\* its own, of its dbexecute call or of the load it awaits that can happen
\* next and takes it further towards its end: none waits for another call of
\* app to go on or to end.
C18_NotBlocked ==
    \A r \in Slots :
        req[r].pc # "idle"
            => ENABLED (/\ StepOf(r)
                        /\ Progress(req'[r], db'[r], db'[Loader])
                             > Progress(req[r], db[r], db[Loader]))

\* C18 witness: a GET that came after the first POST was answered has been
\* answered while the request of slot 2 is still waiting for its body.
C18_Witness ==
    /\ req[2].pc = "body"
    /\ req[1].pc = "idle"
    /\ Answered
    /\ ended.method = "GET"
    /\ ended.code = 200
    /\ ended.seen = 1

=============================================================================
